---- MODULE Spec2Model ----
(***************************************************************************)
(* A model of main_story.py: the fine-tuning driver of the ProPara         *)
(* conversion task.  main() optionally calls train() and then optionally   *)
(* loads the best checkpoint and evaluates it on the test set.  train()    *)
(* runs a baseline dev evaluation, then per epoch a loop over batches with *)
(* gradient accumulation, a dev evaluation and a checkpoint decision.      *)
(* test_model_conversion() builds the prediction artifact; its loops are   *)
(* modelled by a second specification, SpecPred.                           *)
(*                                                                         *)
(* Abstractions.  Parameters are identified by where they come from and    *)
(* how many optimizer steps were applied to them.  The metrics returned by *)
(* the official scorer are an input of every evaluation, drawn from a      *)
(* small range.  A head loss is <<>> (None) or <<x>>.                      *)
(***************************************************************************)
EXTENDS Integers, Sequences, FiniteSets

\* ------------------------------------------------------------------ bounds
MaxEpochs == 2
MaxAccum == 3
MaxTrain == 3
MaxBatch == 2
MaxVerif == 1
MaxSamples == 2
MaxSent == 2
MaxEnt == 2

\* best_verifiability = -1 before the first epoch (line 84)
InitialBest == -1

VARIABLES
  pc,                 \* position in main()/train()
  cfg,                \* parsed arguments and the sizes the run depends on
  error,              \* "none", or the exception that ended the run
  training,           \* model.training (model.train() / model.eval())
  params,             \* in-memory model parameters
  grads,              \* batches whose gradients are accumulated in .grad
  applied,            \* the gradients the latest optimizer.step() applied
  optimizer_steps,    \* number of optimizer.step() calls
  scheduler_steps,    \* number of scheduler.step() calls
  t_total,            \* num_training_steps given to the scheduler
  best_verifiability,
  verifiability,      \* result of the latest dev evaluation
  global_step,
  iteration,          \* epoch index of the for loop in train()
  batch_idx,          \* batches of the current epoch already processed
  losses,             \* the three head losses of the latest batch
  backprop,           \* <<>>, or <<the loss the latest backward() ran on>>
  batch_ops,          \* what the latest batch did after the forward pass
  best_model,         \* the file best_model: <<>> or <<state_dict>>
  results_epoch_dev,  \* the file results_epoch_dev.json, one record per line
  final_test_results, \* the file final_test_results.json
  eval_log,           \* history: every call of test_model_conversion
  save_log,           \* history: the epochs at which best_model was written
  epoch_log,          \* history: parameters and dev verifiability at each epoch's end
  test_set,           \* SpecPred: the examples given to test_model_conversion
  sample_i,           \* SpecPred: index of the example being processed
  entity_id,          \* SpecPred: index of the entity being processed
  sample_pred,        \* SpecPred: predictions of the current example
  all_preds,          \* SpecPred: predictions of the finished examples
  output_json,        \* SpecPred: the artifact file: <<>> or <<all_preds>>
  ppc                 \* SpecPred: position in test_model_conversion()

trainVars == <<pc, cfg, error, training, params, grads, applied, optimizer_steps,
               scheduler_steps, t_total, best_verifiability, verifiability,
               global_step, iteration, batch_idx, losses, backprop, batch_ops,
               best_model, results_epoch_dev, final_test_results, eval_log,
               save_log, epoch_log>>
predVars == <<test_set, sample_i, entity_id, sample_pred, all_preds, output_json, ppc>>
vars == <<trainVars, predVars>>

\* ----------------------------------------------------------------- helpers
MaxOf(S) == CHOOSE x \in S : \A y \in S : y <= x

Last(s) == s[Len(s)]

RECURSIVE SumSeq(_)
SumSeq(s) == IF s = <<>> THEN 0 ELSE s[1] + SumSeq(Tail(s))

Verifs == 0..MaxVerif
\* accuracy and consistency are returned, logged and never read again
OtherScores == {0}
Metrics == [accuracy : OtherScores, consistency : OtherScores, verifiability : Verifs]

Pretrained == [origin |-> "pretrained", steps |-> 0]
PreviousRun == [origin |-> "previous_run", steps |-> 0]
OldRecord == [accuracy |-> 0, consistency |-> 0, verifiability |-> 0]

Configs ==
  [do_train : BOOLEAN, do_eval : BOOLEAN,
   num_train_epochs : 0..MaxEpochs,
   gradient_accumulation_steps : 1..MaxAccum,
   per_gpu_train_batch_size : 1..MaxBatch,
   train_len : 1..MaxTrain,
   prior_output : BOOLEAN]

\* ---------------------------------------------------------- train(): pieces
\* len(train_batch): DataLoader keeps the last, smaller batch
NumBatches(n, b) == (n + b - 1) \div b

\* line 81
TTotal(n, N, E) == (n \div N) * E

\* a baseline evaluation at the head of every epoch
IsBaselineEpoch_EveryEpoch(it) == it >= 0

\* line 91
IsBaselineEpoch(it) == it = 0

\* lines 106-113: which heads are added
Present(l) == l # <<>>
\* what the model returns as losses: per head None, or a value; head h's
\* value is 2^(h-1), so that a sum tells which heads went into it
LossTriples == {ls \in [1..3 -> {<<>>, <<1>>, <<2>>, <<4>>}] :
                  \A h \in 1..3 : ls[h] \in {<<>>, <<2 ^ (h - 1)>>}}

AddedHeads(ls) == {h \in 1..3 : Present(ls[h])}

\* lines 102-116: total_loss; tensor is FALSE while it is still the Python
\* number 0 (or 0/N), which has no backward()
TotalLoss(ls, N) ==
  [num |-> SumSeq([h \in 1..3 |-> IF h \in AddedHeads(ls) THEN ls[h][1] ELSE 0]),
   den |-> IF N > 1 THEN N ELSE 1,
   tensor |-> AddedHeads(ls) # {}]

\* the counter tested before it counts the current batch
IsStepBatch_OffByOne(gs, N) == gs % N = 0

\* line 119
IsStepBatch(gs, N) == (gs + 1) % N = 0

\* lines 120-123, in order
StepOps == <<"clip_grad_norm", "optimizer_step", "scheduler_step", "zero_grad">>

\* a checkpoint at the end of every epoch
ShouldSave_Always(v, best) == v >= InitialBest

\* a tie keeps the earlier checkpoint
ShouldSave_Strict(v, best) == v > best

\* line 137
ShouldSave(v, best) == v >= best

\* lines 96-97, 134-135, 218-219: open(..., "a") and one write
AppendLine(file, rec) == Append(file, rec)

\* the checkpoint is read and the model keeps the parameters it has
LoadedParams_Keep(file, current) == current

\* line 213: the parameters the model holds after load_state_dict
LoadedParams(file, current) == file[1]

\* one call of test_model_conversion: its arguments, the mode of the model
\* (model.training) and of autograd (torch.is_grad_enabled()) during the call,
\* and the metrics it returned
EvalRecord(name, it, tr, grad, m) ==
  [name |-> name, iteration |-> it, training |-> tr, grad_enabled |-> grad,
   params |-> params, global_step |-> global_step, metrics |-> m]

\* ------------------------------------------------------------------- Init
PredIdle ==
  /\ test_set = <<>>
  /\ sample_i = 0
  /\ entity_id = 0
  /\ sample_pred = <<>>
  /\ all_preds = <<>>
  /\ output_json = <<>>
  /\ ppc = "idle"

Init ==
  /\ pc = "main"
  /\ cfg \in Configs
  /\ error = "none"
  \* from_pretrained (line 204) returns the model in evaluation mode
  /\ training = FALSE
  /\ params = Pretrained
  /\ grads = {}
  /\ applied = {}
  /\ optimizer_steps = 0
  /\ scheduler_steps = 0
  /\ t_total = 0
  /\ best_verifiability = InitialBest
  /\ verifiability = 0
  /\ global_step = 0
  /\ iteration = 0
  /\ batch_idx = 0
  /\ losses = <<>>
  /\ backprop = <<>>
  /\ batch_ops = <<>>
  \* the output directory may hold the files of an earlier run (line 188)
  /\ best_model = IF cfg.prior_output THEN <<PreviousRun>> ELSE <<>>
  /\ results_epoch_dev = IF cfg.prior_output THEN <<OldRecord>> ELSE <<>>
  /\ final_test_results = <<>>
  /\ eval_log = <<>>
  /\ save_log = <<>>
  /\ epoch_log = <<>>
  /\ PredIdle

\* ---------------------------------------------------------------- actions
\* main(), lines 182-211: parse, build the model, branch on --do_train
MainSetup ==
  /\ pc = "main"
  /\ pc' = IF cfg.do_train THEN "train_setup"
           ELSE IF cfg.do_eval THEN "load" ELSE "done"
  /\ UNCHANGED <<cfg, error, training, params, grads, applied, optimizer_steps,
                 scheduler_steps, t_total, best_verifiability, verifiability,
                 global_step, iteration, batch_idx, losses, backprop, batch_ops,
                 best_model, results_epoch_dev, final_test_results, eval_log,
                 save_log, epoch_log>>
  /\ UNCHANGED predVars

\* train(), lines 70-88
TrainSetup ==
  /\ pc = "train_setup"
  /\ t_total' = TTotal(cfg.train_len, cfg.gradient_accumulation_steps,
                       cfg.num_train_epochs)
  /\ best_verifiability' = InitialBest
  /\ global_step' = 0
  /\ iteration' = 0
  /\ pc' = "epoch_head"
  /\ UNCHANGED <<cfg, error, training, params, grads, applied, optimizer_steps,
                 scheduler_steps, verifiability, batch_idx, losses, backprop,
                 batch_ops, best_model, results_epoch_dev, final_test_results,
                 eval_log, save_log, epoch_log>>
  /\ UNCHANGED predVars

\* lines 89-100: the loop head, the baseline evaluation of the first epoch,
\* model.train()
EpochStart ==
  /\ pc = "epoch_head"
  /\ iteration < cfg.num_train_epochs
  /\ IF IsBaselineEpoch(iteration)
     THEN \* model.eval(), then the call inside torch.no_grad()
          \E m \in Metrics :
            /\ eval_log' = Append(eval_log,
                 EvalRecord("dev_conversion", 0, FALSE, FALSE, m))
            /\ verifiability' = m.verifiability
            /\ results_epoch_dev' = AppendLine(results_epoch_dev, m)
     ELSE UNCHANGED <<eval_log, verifiability, results_epoch_dev>>
  /\ training' = TRUE
  /\ batch_idx' = 0
  /\ pc' = "batches"
  /\ UNCHANGED <<cfg, error, params, grads, applied, optimizer_steps,
                 scheduler_steps, t_total, best_verifiability, global_step,
                 iteration, losses, backprop, batch_ops, best_model,
                 final_test_results, save_log, epoch_log>>
  /\ UNCHANGED predVars

\* lines 101-126: one batch
TrainBatch ==
  /\ pc = "batches"
  /\ batch_idx < NumBatches(cfg.train_len, cfg.per_gpu_train_batch_size)
  /\ \E ls \in LossTriples :
       LET N == cfg.gradient_accumulation_steps
           total_loss == TotalLoss(ls, N)
           k == global_step + 1
       IN
       /\ losses' = ls
       /\ IF ~total_loss.tensor
          THEN \* line 117: the number 0 has no backward()
               /\ error' = "AttributeError"
               /\ pc' = "crashed"
               /\ backprop' = <<>>
               /\ UNCHANGED <<params, grads, applied, optimizer_steps,
                              scheduler_steps, global_step, batch_idx, batch_ops>>
          ELSE /\ backprop' = <<[num |-> total_loss.num, den |-> total_loss.den]>>
               /\ IF IsStepBatch(global_step, N)
                  THEN /\ batch_ops' = <<"backward">> \o StepOps
                       /\ applied' = grads \cup {k}
                       /\ params' = [params EXCEPT !.steps = @ + 1]
                       /\ optimizer_steps' = optimizer_steps + 1
                       /\ scheduler_steps' = scheduler_steps + 1
                       /\ grads' = {}
                  ELSE /\ batch_ops' = <<"backward">>
                       /\ grads' = grads \cup {k}
                       /\ UNCHANGED <<applied, params, optimizer_steps, scheduler_steps>>
               /\ global_step' = k
               /\ batch_idx' = batch_idx + 1
               /\ UNCHANGED <<error, pc>>
  /\ UNCHANGED <<cfg, training, t_total, best_verifiability, verifiability,
                 iteration, best_model, results_epoch_dev, final_test_results,
                 eval_log, save_log, epoch_log>>
  /\ UNCHANGED predVars

\* lines 128-135: the dev evaluation after the last batch of the epoch
EpochEval ==
  /\ pc = "batches"
  /\ batch_idx = NumBatches(cfg.train_len, cfg.per_gpu_train_batch_size)
  /\ \E m \in Metrics :
       \* model.eval(), then the call inside torch.no_grad()
       /\ eval_log' = Append(eval_log,
            EvalRecord("dev_conversion", iteration + 1, FALSE, FALSE, m))
       /\ verifiability' = m.verifiability
       /\ results_epoch_dev' = AppendLine(results_epoch_dev, m)
  /\ training' = FALSE
  /\ epoch_log' = Append(epoch_log, [params |-> params,
                                    verifiability |-> verifiability'])
  /\ pc' = "checkpoint"
  /\ UNCHANGED <<cfg, error, params, grads, applied, optimizer_steps,
                 scheduler_steps, t_total, best_verifiability, global_step,
                 iteration, batch_idx, losses, backprop, batch_ops, best_model,
                 final_test_results, save_log>>
  /\ UNCHANGED predVars

\* lines 137-139, and the loop's next iteration
CheckpointDecision ==
  /\ pc = "checkpoint"
  /\ IF ShouldSave(verifiability, best_verifiability)
     THEN /\ best_model' = <<params>>
          /\ best_verifiability' = verifiability
          /\ save_log' = Append(save_log, iteration + 1)
     ELSE UNCHANGED <<best_model, best_verifiability, save_log>>
  /\ iteration' = iteration + 1
  /\ pc' = "epoch_head"
  /\ UNCHANGED <<cfg, error, training, params, grads, applied, optimizer_steps,
                 scheduler_steps, t_total, verifiability, global_step, batch_idx,
                 losses, backprop, batch_ops, results_epoch_dev,
                 final_test_results, eval_log, epoch_log>>
  /\ UNCHANGED predVars

\* the for loop of line 89 is exhausted: train() returns to main(), line 212
TrainReturn ==
  /\ pc = "epoch_head"
  /\ iteration = cfg.num_train_epochs
  /\ pc' = IF cfg.do_eval THEN "load" ELSE "done"
  /\ UNCHANGED <<cfg, error, training, params, grads, applied, optimizer_steps,
                 scheduler_steps, t_total, best_verifiability, verifiability,
                 global_step, iteration, batch_idx, losses, backprop, batch_ops,
                 best_model, results_epoch_dev, final_test_results, eval_log,
                 save_log, epoch_log>>
  /\ UNCHANGED predVars

\* lines 213-214: torch.load raises when there is no file best_model
LoadBest ==
  /\ pc = "load"
  /\ IF best_model = <<>>
     THEN /\ error' = "FileNotFoundError"
          /\ pc' = "crashed"
          /\ UNCHANGED params
     ELSE /\ params' = LoadedParams(best_model, params)
          /\ pc' = "test"
          /\ UNCHANGED error
  /\ UNCHANGED <<cfg, training, grads, applied, optimizer_steps,
                 scheduler_steps, t_total, best_verifiability, verifiability,
                 global_step, iteration, batch_idx, losses, backprop, batch_ops,
                 best_model, results_epoch_dev, final_test_results, eval_log,
                 save_log, epoch_log>>
  /\ UNCHANGED predVars

\* lines 215-219: the test evaluation, called with the model as it is
FinalTest ==
  /\ pc = "test"
  /\ \E m \in Metrics :
       /\ eval_log' = Append(eval_log, EvalRecord("test_conversion", -1, training, TRUE, m))
       /\ final_test_results' = AppendLine(final_test_results, m)
  /\ pc' = "done"
  /\ UNCHANGED <<cfg, error, training, params, grads, applied, optimizer_steps,
                 scheduler_steps, t_total, best_verifiability, verifiability,
                 global_step, iteration, batch_idx, losses, backprop, batch_ops,
                 best_model, results_epoch_dev, save_log, epoch_log>>
  /\ UNCHANGED predVars

Next ==
  \/ MainSetup
  \/ TrainSetup
  \/ EpochStart
  \/ TrainBatch
  \/ EpochEval
  \/ CheckpointDecision
  \/ TrainReturn
  \/ LoadBest
  \/ FinalTest

Spec == Init /\ [][Next]_vars

\* ------------------------------------------- test_model_conversion(): SpecPred
\* An example as far as the loops read it: the number of sentences of each
\* story and the number of entities in compact_states.
Samples ==
  [story_A_sentences : 1..MaxSent, story_B_sentences : 1..MaxSent,
   compact_states : 0..MaxEnt]

TestSets == UNION {[1..n -> Samples] : n \in 0..MaxSamples}

\* The model's three outputs for entity j of example i: one row of logits
\* per timestep and head (models.py is not part of the sources; the rows
\* follow the batch of line 48, one per timestep of story A).
ModelOutputs(i, j, sample) ==
  [h \in 1..3 |->
     [t \in 1..sample.story_A_sentences |->
        [sample |-> i, entity |-> j, head |-> h, timestep |-> t]]]

\* F.softmax(x, dim=1) acts on every row by itself; the probability vector
\* of a row is identified by the row
SoftmaxRows(x) == [r \in 1..Len(x) |-> [softmax_of |-> x[r]]]

\* one entry per timestep, each holding the three heads' vectors
EntityPred_PerTimestep(outputs) ==
  [t \in 1..Len(outputs[1]) |-> [h \in 1..3 |-> SoftmaxRows(outputs[h])[t]]]

\* line 55: of each head, F.softmax(outputs[h], dim=1)[0]
EntityPred(outputs) ==
  <<SoftmaxRows(outputs[1])[1], SoftmaxRows(outputs[2])[1], SoftmaxRows(outputs[3])[1]>>

TrainIdle ==
  /\ pc = "idle"
  /\ cfg = [do_train |-> FALSE, do_eval |-> FALSE, num_train_epochs |-> 0,
            gradient_accumulation_steps |-> 1, per_gpu_train_batch_size |-> 1,
            train_len |-> 1, prior_output |-> FALSE]
  /\ error = "none"
  /\ training = FALSE
  /\ params = Pretrained
  /\ grads = {}
  /\ applied = {}
  /\ optimizer_steps = 0
  /\ scheduler_steps = 0
  /\ t_total = 0
  /\ best_verifiability = InitialBest
  /\ verifiability = 0
  /\ global_step = 0
  /\ iteration = 0
  /\ batch_idx = 0
  /\ losses = <<>>
  /\ backprop = <<>>
  /\ batch_ops = <<>>
  /\ best_model = <<>>
  /\ results_epoch_dev = <<>>
  /\ final_test_results = <<>>
  /\ eval_log = <<>>
  /\ save_log = <<>>
  /\ epoch_log = <<>>

\* the call: line 25
InitPred ==
  /\ TrainIdle
  /\ test_set \in TestSets
  /\ sample_i = 0
  /\ entity_id = 0
  /\ sample_pred = <<>>
  /\ all_preds = <<>>
  /\ output_json = <<>>
  /\ ppc = "samples"

\* lines 26-31: the next example
PredNextSample ==
  /\ ppc = "samples"
  /\ sample_i < Len(test_set)
  /\ sample_i' = sample_i + 1
  /\ sample_pred' = <<>>
  /\ entity_id' = 0
  /\ ppc' = "entities"
  /\ UNCHANGED <<test_set, all_preds, output_json>>
  /\ UNCHANGED trainVars

\* lines 32-55: one entity of the example
PredEntity ==
  /\ ppc = "entities"
  /\ entity_id < test_set[sample_i].compact_states
  /\ sample_pred' = Append(sample_pred,
                           EntityPred(ModelOutputs(sample_i, entity_id + 1,
                                                   test_set[sample_i])))
  /\ entity_id' = entity_id + 1
  /\ UNCHANGED <<test_set, sample_i, all_preds, output_json, ppc>>
  /\ UNCHANGED trainVars

\* line 56
PredSampleEnd ==
  /\ ppc = "entities"
  /\ entity_id = test_set[sample_i].compact_states
  /\ all_preds' = Append(all_preds, sample_pred)
  /\ ppc' = "samples"
  /\ UNCHANGED <<test_set, sample_i, entity_id, sample_pred, output_json>>
  /\ UNCHANGED trainVars

\* lines 57-58: json.dump(all_preds) into a file opened with "w"
PredDump ==
  /\ ppc = "samples"
  /\ sample_i = Len(test_set)
  /\ output_json' = <<all_preds>>
  /\ ppc' = "written"
  /\ UNCHANGED <<test_set, sample_i, entity_id, sample_pred, all_preds>>
  /\ UNCHANGED trainVars

NextPred ==
  \/ PredNextSample
  \/ PredEntity
  \/ PredSampleEnd
  \/ PredDump

SpecPred == InitPred /\ [][NextPred]_vars

\* ------------------------------------------------------- history, derived
\* epochs whose checkpoint decision has been taken
Decided == IF pc = "checkpoint" THEN Len(epoch_log) - 1 ELSE Len(epoch_log)

EpochV(e) == epoch_log[e].verifiability

\* the best value seen before epoch e, starting from the initial -1
BestBefore(e) == MaxOf({InitialBest} \cup {EpochV(i) : i \in 1..(e - 1)})

SavedEpochs == {save_log[i] : i \in DOMAIN save_log}

\* the latest of the decided epochs that attained the maximum verifiability
LatestBestEpoch ==
  MaxOf({e \in 1..Decided : EpochV(e) = MaxOf({EpochV(i) : i \in 1..Decided})})

IsDev(r) == r.name = "dev_conversion"
DevEvals == SelectSeq(eval_log, IsDev)

BatchesPerEpoch == NumBatches(cfg.train_len, cfg.per_gpu_train_batch_size)

IsPrefix(s, t) == Len(s) <= Len(t) /\ SubSeq(t, 1, Len(s)) = s

\* ------------------------------------------------------------------ claims
\* C1: best_verifiability is the best value seen so far (so it never
\* decreases), best_model is written at epoch e exactly when v_e >= the best
\* value seen before e, and after every epoch the checkpoint on disk was
\* written at an epoch whose verifiability is max(v_1..v_e).
C1_StateInv ==
  /\ best_verifiability = BestBefore(Decided + 1)
  /\ \A e \in 1..Decided : (e \in SavedEpochs) <=> (EpochV(e) >= BestBefore(e))
  /\ Decided >= 1 =>
       /\ save_log # <<>>
       /\ best_model # <<>>
       /\ EpochV(Last(save_log)) = MaxOf({EpochV(e) : e \in 1..Decided})

C1_BestSoFar ==
  /\ []C1_StateInv
  /\ [][best_verifiability' >= best_verifiability]_vars

\* C1 witness: two epochs decided, the second scored lower and was not saved.
C1_Witness ==
  /\ pc = "epoch_head"
  /\ Decided = 2
  /\ EpochV(2) < EpochV(1)
  /\ save_log = <<1>>

\* C2: after any epoch the checkpoint on disk holds the parameters of the
\* latest epoch that attained the maximum verifiability: a tie overwrites.
C2_LastWriteWins ==
  Decided >= 1 =>
    /\ save_log # <<>>
    /\ Last(save_log) = LatestBestEpoch
    /\ best_model = <<epoch_log[LatestBestEpoch].params>>

\* C2 witness: epochs 1 and 2 tie with different parameters, and the file
\* holds those of epoch 2.
C2_Witness ==
  /\ Decided = 2
  /\ EpochV(1) = EpochV(2)
  /\ epoch_log[1].params # epoch_log[2].params
  /\ best_model = <<epoch_log[2].params>>

\* C3: with N = gradient_accumulation_steps and batches counted across the
\* whole run, batch k is followed by clip, optimizer step, scheduler step and
\* gradient reset, in this order, iff N divides k; otherwise gradients are
\* only accumulated; every optimizer step applies the gradients of exactly
\* the N batches since the previous step.
C3_StepEveryNth ==
  LET N == cfg.gradient_accumulation_steps
      k == global_step
  IN
  /\ optimizer_steps = k \div N
  /\ scheduler_steps = optimizer_steps
  /\ grads = (k - (k % N) + 1)..k
  /\ k >= 1 =>
       batch_ops = IF k % N = 0 THEN <<"backward">> \o StepOps ELSE <<"backward">>
  /\ optimizer_steps >= 1 =>
       applied = (N * (optimizer_steps - 1) + 1)..(N * optimizer_steps)

\* C3 witness: an optimizer step whose window spans an epoch boundary
\* (three batches per epoch, N = 2: batches 3 and 4).
C3_Witness ==
  /\ cfg.gradient_accumulation_steps = 2
  /\ BatchesPerEpoch = 3
  /\ global_step = 4
  /\ applied = {3, 4}
  /\ batch_ops = <<"backward">> \o StepOps

\* C4: the dev evaluations are labelled 0, 1, 2, ... in order, the baseline
\* runs before any batch, evaluation e runs after all batches of epoch e and
\* before that epoch's checkpoint decision, every evaluation appends one
\* record to results_epoch_dev.json, whose earlier records never change, and
\* a run of train with E >= 1 epochs ends with exactly E + 1 evaluations.
C4_StateInv ==
  LET dev == DevEvals IN
  /\ \A i \in 1..Len(dev) :
       /\ dev[i].iteration = i - 1
       /\ dev[i].global_step = (i - 1) * BatchesPerEpoch
  /\ Len(dev) >= 1 =>
       iteration = IF pc = "checkpoint" THEN Len(dev) - 2 ELSE Len(dev) - 1
  /\ results_epoch_dev =
       (IF cfg.prior_output THEN <<OldRecord>> ELSE <<>>)
         \o [i \in 1..Len(dev) |-> dev[i].metrics]
  /\ (cfg.do_train /\ cfg.num_train_epochs >= 1 /\ pc \in {"load", "test", "done"}) =>
       Len(dev) = cfg.num_train_epochs + 1

C4_EvalSchedule ==
  /\ []C4_StateInv
  /\ [][/\ IsPrefix(results_epoch_dev, results_epoch_dev')
         /\ Len(results_epoch_dev') <= Len(results_epoch_dev) + 1]_vars

\* C4 witness: a finished run of two epochs appended three records after
\* the record an earlier run left.
C4_Witness ==
  /\ pc = "done"
  /\ cfg.do_train
  /\ cfg.num_train_epochs = 2
  /\ cfg.prior_output
  /\ Len(results_epoch_dev) = 4
  /\ Len(DevEvals) = 3

\* C5 (as claimed): for every combination of present and absent head losses
\* the training step raises no error and back-propagates the sum of the
\* present losses divided by the accumulation window.
C5_EveryCombination ==
  losses # <<>> =>
    /\ error = "none"
    /\ backprop =
         <<[num |-> SumSeq([h \in 1..3 |-> IF Present(losses[h]) THEN losses[h][1] ELSE 0]),
            den |-> cfg.gradient_accumulation_steps]>>

\* C6 (as claimed): every call of test_model_conversion runs with the model
\* in inference mode and with gradient tracking disabled.
C6_InferenceMode ==
  \A i \in 1..Len(eval_log) :
    /\ ~eval_log[i].training
    /\ ~eval_log[i].grad_enabled

\* C9 (as claimed): the number of optimizer/scheduler steps performed never
\* exceeds the t_total given to the scheduler.
C9_StepsWithinTotal ==
  pc \notin {"main", "train_setup"} =>
    /\ optimizer_steps <= t_total
    /\ scheduler_steps <= t_total

\* C10: with --do_train and --do_eval and E >= 1, the test evaluation runs on
\* the parameters of the best_model file written during this run, those of
\* the latest epoch with maximal dev verifiability, loaded after training;
\* nothing updates them between the load and the evaluation.
C10_TestUsesBest ==
  (cfg.do_train /\ cfg.do_eval /\ cfg.num_train_epochs >= 1) =>
    /\ pc = "test" =>
         /\ best_model = <<epoch_log[LatestBestEpoch].params>>
         /\ params = best_model[1]
    /\ pc = "done" =>
         /\ Last(eval_log).name = "test_conversion"
         /\ Last(eval_log).params = epoch_log[LatestBestEpoch].params
         /\ Last(eval_log).params.origin = "pretrained"
         /\ Last(eval_log).global_step = cfg.num_train_epochs * BatchesPerEpoch
         /\ params = Last(eval_log).params

\* C10 witness: the test ran on parameters other than those the last epoch
\* left in memory.
C10_Witness ==
  /\ pc = "done"
  /\ cfg.do_train
  /\ cfg.do_eval
  /\ cfg.num_train_epochs = 2
  /\ Last(eval_log).name = "test_conversion"
  /\ Last(eval_log).params # Last(epoch_log).params
  /\ Last(eval_log).params = epoch_log[1].params

\* C8 is not settled here: make_timestep_sequence is defined in data_utils.py,
\* which is not among the sources, and lines 48-53 use its result as a batch
\* with one row per element, so its shape cannot be fixed from this file.

\* C7 (as claimed): the artifact has one entry per example, each holding one
\* entry per entity, each holding one entry per timestep of the story, each
\* of which holds exactly three probability vectors.
C7_PerTimestepNesting ==
  output_json # <<>> =>
    LET art == output_json[1] IN
    /\ Len(art) = Len(test_set)
    /\ \A i \in 1..Len(art) :
         /\ Len(art[i]) = test_set[i].compact_states
         /\ \A j \in 1..Len(art[i]) :
              /\ Len(art[i][j]) \in {test_set[i].story_A_sentences,
                                     test_set[i].story_B_sentences}
              /\ \A t \in 1..Len(art[i][j]) : Len(art[i][j][t]) = 3

\* C7 (amended): the artifact has one entry per example in input order, each
\* holding one entry per entity in order, and every entity entry is exactly
\* three probability vectors, one per head in head order, each the first row
\* of that head's softmax output; there is no per-timestep level.
C7_ThreeVectorsPerEntity ==
  output_json # <<>> =>
    LET art == output_json[1] IN
    /\ Len(art) = Len(test_set)
    /\ \A i \in 1..Len(art) :
         /\ Len(art[i]) = test_set[i].compact_states
         /\ \A j \in 1..Len(art[i]) :
              /\ Len(art[i][j]) = 3
              /\ \A h \in 1..3 :
                   art[i][j][h] =
                     [softmax_of |-> [sample |-> i, entity |-> j, head |-> h,
                                      timestep |-> 1]]

\* C7 witness: an artifact of two examples, the second with two entities and
\* a story of two timesteps.
C7_Witness ==
  /\ output_json # <<>>
  /\ Len(test_set) = 2
  /\ test_set[2].compact_states = 2
  /\ test_set[2].story_A_sentences = 2
  /\ test_set[2].story_B_sentences = 2
  /\ Len(output_json[1][2]) = 2
  /\ Len(output_json[1][2][2]) = 3

====
